---- MODULE Spec2Model ----
(***************************************************************************)
(* flusty: the module resolver (parser/src/rust/module.rs), the type       *)
(* conversions it calls (parser/src/rust/types.rs) and the Result-based    *)
(* conversions of parser/src/types.rs, as a state machine.                 *)
(*                                                                         *)
(* Spec      one ModuleBuilder driven through name(), path(), data() and   *)
(*           build() over a set of module files; the recursion of          *)
(*           handle_mod -> data is an explicit stack of builders.          *)
(* SpecConv  the pure conversions applied to bounded syn values.           *)
(***************************************************************************)
EXTENDS Integers, Sequences, FiniteSets, TLC

VARIABLES
    annotations, \* ModuleBuilder.annotations: the marker attribute names
    rootName,    \* root builder's name: Option<String>
    rootPath,    \* root builder's path: Option<String>
    fs,          \* the module files under the path, revealed as they are read
    stack,       \* the ModuleBuilders whose data() is running, root first
    result,      \* what the root data().build() chain gave the caller
    failed,      \* history: the modules whose read_module gave InvalidModule,
                 \* and what build() of the root builder gives afterwards
    run,         \* 1 for the first resolve call, 2 for the repeated one
    first,       \* result of the first resolve call
    cin,         \* SpecConv: the syn value handed to a conversion
    cout         \* SpecConv: what the conversion gave

vars == <<annotations, rootName, rootPath, fs, stack, result,
          failed, run, first, cin, cout>>

resolverVars == <<annotations, rootName, rootPath, fs, stack,
                  result, failed, run, first>>

convVars == <<cin, cout>>

-----------------------------------------------------------------------------
(* Bounds *)

\* total number of items over all the module files
MaxItems == 2
\* builders nested on the call stack before the stack overflows
MaxDepth == 3
\* nesting depth of the syn types given to the conversions
MaxTypeDepth == 2
\* fields of the structs given to the conversions
MaxFields == 2
\* characters of the names given to the Named methods
MaxNameLen == 4

-----------------------------------------------------------------------------
(* Option and Result values *)

None == [tag |-> "None"]
Some(v) == [tag |-> "Some", val |-> v]
Ok(v) == [tag |-> "Ok", val |-> v]
Err(e) == [tag |-> "Err", err |-> e]
\* a panic!, todo!() or failed unwrap(): the thread unwinds, no value returns
Panic(m) == [tag |-> "Panic", msg |-> m]
PanicAt(m, what) == [tag |-> "Panic", msg |-> m, what |-> what]

IsOk(r) == r.tag = "Ok"

\* iter().map(f).collect(), for Vec and for Result<Vec, _>: the elements are
\* converted in order and the first one that fails ends the whole collect
Collect(rs) ==
    IF \E i \in 1..Len(rs) : ~IsOk(rs[i])
    THEN rs[CHOOSE i \in 1..Len(rs) :
                /\ ~IsOk(rs[i])
                /\ \A j \in 1..(i - 1) : IsOk(rs[j])]
    ELSE Ok([i \in 1..Len(rs) |-> rs[i].val])

-----------------------------------------------------------------------------
(* syn syntax trees *)

\* syn::PathArguments
NoArgs == [a |-> "None"]
Angle(args) == [a |-> "AngleBracketed", args |-> args]
ParenArgs == [a |-> "Parenthesized"]
\* syn::GenericArgument
GType(ty) == [g |-> "Type", ty |-> ty]
GLifetime == [g |-> "Lifetime"]
\* syn::PathSegment
Seg(ident, args) == [ident |-> ident, arguments |-> args]

\* syn::Type
TypePath(segments) == [t |-> "Path", segments |-> segments]
TypeTuple(elems) == [t |-> "Tuple", elems |-> elems]
TypePtr(elem) == [t |-> "Ptr", elem |-> elem]
TypeArray(elem, len) == [t |-> "Array", elem |-> elem, len |-> len]
TypeSlice(elem) == [t |-> "Slice", elem |-> elem]
TypeReference(elem) == [t |-> "Reference", elem |-> elem]

\* syn::Expr, as far as an array length goes. fits: the digits of the
\* literal are a value of usize (base10_parse::<usize>() is Ok)
LitInt(n) == [e |-> "Lit", lit |-> "Int", fits |-> TRUE, value |-> n]
\* an integer literal with more digits than usize holds
LitIntWide == [e |-> "Lit", lit |-> "Int", fits |-> FALSE]
LitStr == [e |-> "Lit", lit |-> "Str"]
ExprPath(ident) == [e |-> "Path", ident |-> ident]

\* a path type of one segment without generic arguments
PathOf(ident) == TypePath(<<Seg(ident, NoArgs)>>)
\* ident<ty>
Generic1(ident, ty) == TypePath(<<Seg(ident, Angle(<<GType(ty)>>))>>)

\* syn::Field
Field(ident, ty) == [ident |-> ident, ty |-> ty]
\* syn::FnArg
ArgTyped(pat, ty) == [arg |-> "Typed", pat |-> pat, ty |-> ty]
ArgReceiver == [arg |-> "Receiver"]
\* syn::Pat of a typed argument
PatIdent(ident) == [pat |-> "Ident", ident |-> ident]
PatWild == [pat |-> "Wild"]
\* syn::ReturnType
ReturnDefault == [r |-> "Default"]
ReturnType(ty) == [r |-> "Type", ty |-> ty]
\* syn::Variant
Variant(ident, fields) == [ident |-> ident, fields |-> fields]

\* syn::Attribute, by its meta
MetaPath(path) == [meta |-> "Path", path |-> path]
MetaList(path) == [meta |-> "List", path |-> path]
MetaNameValue(path) == [meta |-> "NameValue", path |-> path]

\* syn::Item
ItemMod(vis, ident) == [item |-> "Mod", vis |-> vis, ident |-> ident]
ItemFn(vis, attrs, ident, inputs, output) ==
    [item |-> "Fn", vis |-> vis, attrs |-> attrs, ident |-> ident,
     inputs |-> inputs, output |-> output]
ItemStruct(vis, attrs, ident, fields) ==
    [item |-> "Struct", vis |-> vis, attrs |-> attrs, ident |-> ident,
     fields |-> fields]
ItemEnum(vis, attrs, ident, variants) ==
    [item |-> "Enum", vis |-> vis, attrs |-> attrs, ident |-> ident,
     variants |-> variants]
\* use, impl, const, ...
ItemOther == [item |-> "Other"]

-----------------------------------------------------------------------------
(* parser/src/rust/types.rs: the conversions the resolver calls *)

Primitive(p) == [k |-> "Primitive", p |-> p]
Pointer(ty) == [k |-> "Pointer", ty |-> ty]
Tuple(types) == [k |-> "Tuple", types |-> types]
RsField(name, ty) == [name |-> name, ty |-> ty]
RsStruct(name, fields) == [name |-> name, fields |-> fields]
RsVariant(name, fields) == [name |-> name, fields |-> fields]
RsEnum(name, variants) == [name |-> name, variants |-> variants]
RsFn(name, args, ret) == [name |-> name, args |-> args, ret |-> ret]

\* the match on the first segment's name
RsPrimitiveOfName(name) ==
    CASE name = "i8" -> Ok("I8")
      [] name = "i16" -> Ok("I16")
      [] name = "i32" -> Ok("I32")
      [] name = "i64" -> Ok("I64")
      [] name = "i128" -> Ok("I128")
      [] name = "u8" -> Ok("U8")
      [] name = "u16" -> Ok("U16")
      [] name = "u32" -> Ok("U32")
      [] name = "u64" -> Ok("U64")
      [] name = "u128" -> Ok("U128")
      [] name = "f32" -> Ok("F32")
      [] name = "f64" -> Ok("F64")
      [] name = "bool" -> Ok("Bool")
      [] name = "char" -> Ok("Char")
      [] name = "str" -> Ok("Str")
      [] name = "()" -> Ok("Unit")
      [] name = "String" -> Ok("String")
      [] OTHER -> PanicAt("Unsupported type", name)

RECURSIVE RsTypeFrom(_)
\* one segment after the first: only `Option<T, ..>` is taken
RsTypeFromSegment(segment) ==
    IF segment.ident = "Option"
    THEN IF segment.arguments.a = "AngleBracketed"
         THEN IF Len(segment.arguments.args) = 0
              THEN Panic("unwrap on None")
              ELSE IF segment.arguments.args[1].g = "Type"
                   THEN LET inner == RsTypeFrom(segment.arguments.args[1].ty)
                        IN  IF IsOk(inner) THEN Ok(Pointer(inner.val))
                                           ELSE inner
                   ELSE Panic("Unsupported type")
         ELSE Panic("Unsupported type")
    ELSE Panic("Unsupported type")

\* impl From<Type> for RsType
RsTypeFrom(value) ==
    CASE value.t = "Path" ->
            IF Len(value.segments) = 0
            THEN Panic("unwrap on None")
            ELSE LET ty == RsPrimitiveOfName(value.segments[1].ident)
                     rest == [i \in 1..(Len(value.segments) - 1) |->
                                 RsTypeFromSegment(value.segments[i + 1])]
                 IN  IF ~IsOk(ty) THEN ty
                     ELSE IF Len(rest) = 0 THEN Ok(Primitive(ty.val))
                     ELSE IF IsOk(Collect(rest)) THEN rest[Len(rest)]
                     ELSE Collect(rest)
      [] value.t = "Tuple" ->
            LET elems == Collect([i \in 1..Len(value.elems) |->
                                     RsTypeFrom(value.elems[i])])
            IN  IF IsOk(elems) THEN Ok(Tuple(elems.val)) ELSE elems
      [] value.t = "Ptr" ->
            LET ty == RsTypeFrom(value.elem)
            IN  IF IsOk(ty) THEN Ok(Pointer(ty.val)) ELSE ty
      [] OTHER -> Panic("Unsupported type")

\* impl From<FnArg> for RsField
RsFieldFromFnArg(value) ==
    IF value.arg = "Typed"
    THEN IF value.pat.pat = "Ident"
         THEN LET ty == RsTypeFrom(value.ty)
              IN  IF IsOk(ty) THEN Ok(RsField(value.pat.ident, ty.val)) ELSE ty
         ELSE Panic("Function arguments must be named")
    ELSE Panic("Function arguments must be named")

\* impl From<Field> for RsField
RsFieldFrom(value) ==
    IF value.ident.tag = "Some"
    THEN LET ty == RsTypeFrom(value.ty)
         IN  IF IsOk(ty) THEN Ok(RsField(value.ident.val, ty.val)) ELSE ty
    ELSE Panic("Struct fields must be named")

\* impl From<ItemStruct> for RsStruct
RsStructFrom(value) ==
    LET fields == Collect([i \in 1..Len(value.fields) |->
                              RsFieldFrom(value.fields[i])])
    IN  IF IsOk(fields) THEN Ok(RsStruct(value.ident, fields.val)) ELSE fields

\* impl From<Variant> for RsVariant
RsVariantFrom(value) ==
    LET fields == Collect([i \in 1..Len(value.fields) |->
                              RsFieldFrom(value.fields[i])])
    IN  IF IsOk(fields) THEN Ok(RsVariant(value.ident, fields.val)) ELSE fields

\* impl From<ItemEnum> for RsEnum
RsEnumFrom(value) ==
    LET variants == Collect([i \in 1..Len(value.variants) |->
                                RsVariantFrom(value.variants[i])])
    IN  IF IsOk(variants) THEN Ok(RsEnum(value.ident, variants.val))
                          ELSE variants

\* impl From<ItemFn> for RsFn
RsFnFrom(value) ==
    LET args == Collect([i \in 1..Len(value.inputs) |->
                            RsFieldFromFnArg(value.inputs[i])])
        ret == IF value.output.r = "Default"
               THEN Ok(Primitive("Unit"))
               ELSE RsTypeFrom(value.output.ty)
    IN  IF ~IsOk(args) THEN args
        ELSE IF ~IsOk(ret) THEN ret
        ELSE Ok(RsFn(value.ident, args.val, ret.val))

-----------------------------------------------------------------------------
(* parser/src/types.rs: the conversions that return Result *)

Array(ty, len) == [k |-> "Array", ty |-> ty, len |-> len]
\* RsPointer::new
RsPointer(ty, mutable) == [k |-> "Pointer", ty |-> ty, mutable |-> mutable]

\* enum ConversionError
UnnamedField(ty, msg) == [e |-> "UnnamedField", ty |-> ty, msg |-> msg]
UnknownPrimitive(ty, msg) == [e |-> "UnknownPrimitive", ty |-> ty, msg |-> msg]
ReceiverField(ty, msg) == [e |-> "ReceiverField", ty |-> ty, msg |-> msg]
UnknownType(ty, msg) == [e |-> "UnknownType", ty |-> ty, msg |-> msg]
GenericType(ty, msg) == [e |-> "GenericType", ty |-> ty, msg |-> msg]
UnknownArrayLength(ty, msg) ==
    [e |-> "UnknownArrayLength", ty |-> ty, msg |-> msg]

\* impl TryFrom<&str> for RsPrimitive
RsPrimitiveTryFrom(value) ==
    CASE value = "i8" -> Ok("I8")
      [] value = "i16" -> Ok("I16")
      [] value = "i32" -> Ok("I32")
      [] value = "i64" -> Ok("I64")
      [] value = "i128" -> Ok("I128")
      [] value = "u8" -> Ok("U8")
      [] value = "u16" -> Ok("U16")
      [] value = "u32" -> Ok("U32")
      [] value = "u64" -> Ok("U64")
      [] value = "u128" -> Ok("U128")
      [] value = "f32" -> Ok("F32")
      [] value = "f64" -> Ok("F64")
      [] value = "bool" -> Ok("Bool")
      [] value \in {"Char", "char"} -> Ok("Char")
      [] value = "str" -> Ok("Str")
      [] value \in {"string", "String"} -> Ok("String")
      [] value \in {"unit", "Unit"} -> Ok("Unit")
      [] OTHER -> Err(UnknownPrimitive(value, "Unknown primitive type"))

\* the last segment looked at where the loop looks at the first
RsTypeTryFromLastSegment(value) ==
    IF Len(value.segments) = 0
    THEN Err(UnknownType("Type::Path", "Unknown type"))
    ELSE LET segment == value.segments[Len(value.segments)]
         IN  IF segment.arguments.a = "None"
             THEN LET primitive == RsPrimitiveTryFrom(segment.ident)
                  IN  IF IsOk(primitive) THEN Ok(Primitive(primitive.val))
                                         ELSE primitive
             ELSE Err(GenericType("Type::Path",
                                  "Generic types are not supported"))

\* impl TryFrom<&TypePath> for RsType: the loop returns in its first round
RsTypeTryFromTypePath(value) ==
    IF Len(value.segments) = 0
    THEN Err(UnknownType("Type::Path", "Unknown type"))
    ELSE LET segment == value.segments[1]
         IN  IF segment.arguments.a = "None"
             THEN LET primitive == RsPrimitiveTryFrom(segment.ident)
                  IN  IF IsOk(primitive) THEN Ok(Primitive(primitive.val))
                                         ELSE primitive
             ELSE Err(GenericType("Type::Path",
                                  "Generic types are not supported"))

RECURSIVE RsTypeTryFrom(_)
\* impl TryFrom<&TypeArray> for RsArray
RsArrayTryFrom(value) ==
    LET ty == RsTypeTryFrom(value.elem)
    IN  IF ~IsOk(ty) THEN ty
        ELSE IF value.len.e = "Lit" /\ value.len.lit = "Int"
        THEN IF value.len.fits
             THEN Ok(Array(ty.val, value.len.value))
             ELSE Panic("unwrap on Err")
        ELSE Err(UnknownArrayLength("Type::Array", "Unknown array length"))

\* impl TryFrom<&Type> for RsType
RsTypeTryFrom(value) ==
    CASE value.t = "Path" -> RsTypeTryFromTypePath(value)
      [] value.t = "Array" -> RsArrayTryFrom(value)
      [] OTHER -> Panic("not yet implemented")

\* a field without identifier named "0"
RsFieldTryFromIndexed(value) ==
    LET ty == RsTypeTryFrom(value.ty)
    IN  IF IsOk(ty)
        THEN Ok(RsField(IF value.ident.tag = "Some" THEN value.ident.val
                                                    ELSE "0",
                        ty.val))
        ELSE ty

\* impl TryFrom<&Field> for RsField
RsFieldTryFrom(value) ==
    IF value.ident.tag = "Some"
    THEN LET ty == RsTypeTryFrom(value.ty)
         IN  IF IsOk(ty) THEN Ok(RsField(value.ident.val, ty.val)) ELSE ty
    ELSE Err(UnnamedField("Field", "Unnamed fields are not supported"))

\* impl TryFrom<&ItemStruct> for RsStruct
RsStructTryFrom(value) ==
    LET fields == Collect([i \in 1..Len(value.fields) |->
                              RsFieldTryFrom(value.fields[i])])
    IN  IF IsOk(fields) THEN Ok(RsStruct(value.ident, fields.val)) ELSE fields

\* impl TryFrom<&FnArg> for RsField
RsFieldTryFromFnArg(value) ==
    IF value.arg = "Typed"
    THEN IF value.pat.pat = "Ident"
         THEN LET ty == RsTypeTryFrom(value.ty)
              IN  IF IsOk(ty) THEN Ok(RsField(value.pat.ident, ty.val)) ELSE ty
         ELSE Err(UnnamedField("FnArg::Typed",
                               "Unnamed fields are not supported"))
    ELSE Err(ReceiverField("FnArg::Receiver",
                           "Function receivers are not supported"))

\* impl TryFrom<&ItemFn> for RsFn
RsFnTryFrom(value) ==
    LET args == Collect([i \in 1..Len(value.inputs) |->
                            RsFieldTryFromFnArg(value.inputs[i])])
        ret == IF value.output.r = "Default"
               THEN Ok(Primitive("Unit"))
               ELSE RsTypeTryFrom(value.output.ty)
    IN  IF ~IsOk(args) THEN args
        ELSE IF ~IsOk(ret) THEN ret
        ELSE Ok(RsFn(value.ident, args.val, ret.val))

\* impl TryFrom<&Variant> for RsVariant
RsVariantTryFrom(value) ==
    LET fields == Collect([i \in 1..Len(value.fields) |->
                              RsFieldTryFrom(value.fields[i])])
    IN  IF IsOk(fields) THEN Ok(RsVariant(value.ident, fields.val)) ELSE fields

\* impl TryFrom<&ItemEnum> for RsEnum
RsEnumTryFrom(value) ==
    LET variants == Collect([i \in 1..Len(value.variants) |->
                                RsVariantTryFrom(value.variants[i])])
    IN  IF IsOk(variants) THEN Ok(RsEnum(value.ident, variants.val))
                          ELSE variants

-----------------------------------------------------------------------------
(* rua_parser/src/types.rs: the conversions that chain their errors *)

\* ConversionErrorBuilder ... build()
ConversionError(src, dst, msg, data, source) ==
    [src |-> src, dst |-> dst, msg |-> msg, data |-> data, source |-> source]

\* impl TryFrom<&Type> for RsType
RuaRsTypeTryFrom(value) == Panic("not yet implemented")

\* impl Descriptable for &Field: unwraps the identifier, then describes the
\* type, which is todo!()
RuaFieldDescription(value) ==
    IF value.ident.tag = "Some" THEN Panic("not yet implemented")
                                ELSE Panic("unwrap on None")

\* impl TryFrom<&Field> for RsField
RuaRsFieldTryFrom(value) ==
    IF value.ident.tag = "None"
    THEN LET data == RuaFieldDescription(value)
         IN  IF IsOk(data)
             THEN Err(ConversionError(Some("Field"), Some("RsField"),
                          Some("Field must have an identifier"),
                          Some(data.val), None))
             ELSE data
    ELSE LET ty == RuaRsTypeTryFrom(value.ty)
             data == RuaFieldDescription(value)
         IN  IF IsOk(ty) THEN Ok(RsField(value.ident.val, ty.val))
             ELSE IF ty.tag = "Panic" THEN ty
             ELSE IF ~IsOk(data) THEN data
             ELSE Err(ConversionError(ty.err.src, Some("RsField"), None,
                                      Some(data.val), Some(ty.err)))

\* impl TryFrom<&ItemStruct> for RsStruct
RuaRsStructTryFrom(value) ==
    LET fields == Collect([i \in 1..Len(value.fields) |->
                              RuaRsFieldTryFrom(value.fields[i])])
    IN  IF IsOk(fields) THEN Ok(RsStruct(value.ident, fields.val))
        ELSE IF fields.tag = "Panic" THEN fields
        ELSE Err(ConversionError(fields.err.src, Some("RsStruct"), None,
                                 Some([item |-> "struct", ident |-> value.ident]),
                                 Some(fields.err)))

-----------------------------------------------------------------------------
(* The module files the resolver is run on *)

\* module identifiers that occur in the files
Names == {"lib", "a", "b"}
\* the directory that holds the module files; nothing exists elsewhere
SrcDir == "/src"
RootNames == {"lib", "a"}
Paths == {SrcDir, "/tmp/doesnotexist"}
MarkerSets == {<<"export">>, <<"flusty", "export">>}

I32 == PathOf("i32")

AttrLists ==
    { <<>>,
      <<MetaPath(<<"export">>)>>,
      <<MetaPath(<<"flusty">>), MetaList(<<"export">>)>>,
      <<MetaNameValue(<<"export">>)>>,
      <<MetaPath(<<"flusty", "export">>)>> }

\* <<visibility, attributes>> of the declarations in the files
DeclHeads ==
    {<<"Public", at>> : at \in AttrLists}
        \cup {<<"Inherited", <<MetaPath(<<"export">>)>> >>}

FnItems ==
    {ItemFn(h[1], h[2], "f", <<ArgTyped(PatIdent("x"), I32)>>, ReturnDefault) :
        h \in DeclHeads}
    \cup {ItemFn("Public", <<MetaPath(<<"export">>)>>, "g", <<>>,
                 ReturnType(I32)),
          ItemFn("Public", <<MetaPath(<<"export">>)>>, "m", <<ArgReceiver>>,
                 ReturnDefault)}

StructItems ==
    {ItemStruct(h[1], h[2], "S", <<Field(Some("x"), I32)>>) : h \in DeclHeads}
    \cup {ItemStruct("Public", <<MetaPath(<<"export">>)>>, "T", <<>>),
          ItemStruct("Public", <<MetaPath(<<"export">>)>>, "U",
                     <<Field(None, I32)>>)}

EnumItems ==
    {ItemEnum(h[1], h[2], "E", <<Variant("A", <<>>), Variant("B", <<>>)>>) :
        h \in DeclHeads}
    \cup {ItemEnum("Public", <<MetaPath(<<"export">>)>>, "F", <<>>),
          ItemEnum("Public", <<MetaPath(<<"export">>)>>, "G",
                   <<Variant("A", <<Field(Some("x"), PathOf("Vec"))>>)>>)}

ModItems == {ItemMod(v, n) : v \in {"Public", "Inherited"}, n \in Names}

ItemPool == ModItems \cup FnItems \cup StructItems \cup EnumItems
                \cup {ItemOther}

\* one file: st is "unread" until read_to_string first looks at it; the items
\* of a parsed file are revealed as data() walks them, closed once its end was
Unread == [st |-> "unread", items |-> <<>>, closed |-> FALSE]
Slots == {"rs", "mod_rs"}
FileStates == {"absent", "malformed", "parsed"}

TotalItems(f) ==
    LET n[S \in SUBSET (Names \X Slots)] ==
            IF S = {} THEN 0
            ELSE LET x == CHOOSE y \in S : TRUE
                 IN  Len(f[x[1]][x[2]].items) + n[S \ {x}]
    IN  n[Names \X Slots]

\* std::fs::read_to_string(path/name.rs), then (path/name.mod.rs) when the
\* first cannot be read: the files as they are after the reads of read_module.
\* What path/name.mod.rs holds is also recorded when path/name.rs is
\* malformed, although read_module does not look at it then.
RevealRead(f, name, path) ==
    IF name.tag = "None" \/ path.tag = "None" THEN {f}
    ELSE IF path.val # SrcDir \/ name.val \notin Names THEN {f}
    ELSE LET sts(slot) == IF f[name.val][slot].st = "unread" THEN FileStates
                          ELSE {f[name.val][slot].st}
         IN  {[f EXCEPT ![name.val] =
                  [rs |-> [@.rs EXCEPT !.st = s1],
                   mod_rs |-> IF s1 \in {"absent", "malformed"}
                              THEN [@.mod_rs EXCEPT !.st = s2]
                              ELSE @.mod_rs]] :
                 s1 \in sts("rs"), s2 \in sts("mod_rs")}

\* Result<String> of read_to_string and Result<File> of parse_file
FileState(f, path, name, slot) ==
    IF path # SrcDir \/ name \notin Names THEN "absent"
    ELSE f[name][slot].st

-----------------------------------------------------------------------------
(* parser/src/rust/module.rs *)

\* enum ModuleError
MissingName == [e |-> "MissingName"]
MissingPath == [e |-> "MissingPath"]
InvalidModule(name, path) ==
    [e |-> "InvalidModule", name |-> name, path |-> path]

\* struct Module
Module(name, path, children, structs, functions, enums) ==
    [name |-> name, path |-> path, children |-> children,
     structs |-> structs, functions |-> functions, enums |-> enums]

\* a builder that starts from the lists of the previous call
ModuleBuilderStale(name, path, src) ==
    [name |-> name, path |-> path, src |-> src, idx |-> 1,
     children |-> <<>>, structs |-> <<>>,
     functions |-> IF first.tag = "Ok" THEN first.val.functions ELSE <<>>,
     enums |-> <<>>]

\* ModuleBuilder::new, name() and path() of handle_mod, and the position of
\* the `for item in &file.items` loop of data(); src is the file read
ModuleBuilderNew(name, path, src) ==
    [name |-> name, path |-> path, src |-> src, idx |-> 1,
     children |-> <<>>, structs |-> <<>>, functions |-> <<>>, enums |-> <<>>]

\* read_module with the fields of InvalidModule filled the wrong way round
read_module_swapped(f, name, path) ==
    IF name.tag = "None" THEN Err(MissingName)
    ELSE IF path.tag = "None" THEN Err(MissingPath)
    ELSE IF FileState(f, path.val, name.val, "rs") = "parsed" THEN Ok("rs")
    ELSE IF FileState(f, path.val, name.val, "rs") = "absent"
            /\ FileState(f, path.val, name.val, "mod_rs") = "parsed"
    THEN Ok("mod_rs")
    ELSE Err(InvalidModule(path.val, name.val))

\* the path tested before the name
read_module_path_first(f, name, path) ==
    IF path.tag = "None" THEN Err(MissingPath)
    ELSE IF name.tag = "None" THEN Err(MissingName)
    ELSE IF FileState(f, path.val, name.val, "rs") # "absent"
    THEN IF FileState(f, path.val, name.val, "rs") = "parsed"
         THEN Ok("rs")
         ELSE Err(InvalidModule(name.val, path.val))
    ELSE IF FileState(f, path.val, name.val, "mod_rs") # "absent"
    THEN IF FileState(f, path.val, name.val, "mod_rs") = "parsed"
         THEN Ok("mod_rs")
         ELSE Err(InvalidModule(name.val, path.val))
    ELSE Err(InvalidModule(name.val, path.val))

\* path/name.mod.rs tried first
read_module_mod_first(f, name, path) ==
    IF name.tag = "None" THEN Err(MissingName)
    ELSE IF path.tag = "None" THEN Err(MissingPath)
    ELSE IF FileState(f, path.val, name.val, "mod_rs") # "absent"
    THEN IF FileState(f, path.val, name.val, "mod_rs") = "parsed"
         THEN Ok("mod_rs")
         ELSE Err(InvalidModule(name.val, path.val))
    ELSE IF FileState(f, path.val, name.val, "rs") # "absent"
    THEN IF FileState(f, path.val, name.val, "rs") = "parsed"
         THEN Ok("rs")
         ELSE Err(InvalidModule(name.val, path.val))
    ELSE Err(InvalidModule(name.val, path.val))

\* path/name.mod.rs tried when path/name.rs does not parse
read_module_fallback(f, name, path) ==
    IF name.tag = "None" THEN Err(MissingName)
    ELSE IF path.tag = "None" THEN Err(MissingPath)
    ELSE IF FileState(f, path.val, name.val, "rs") = "parsed" THEN Ok("rs")
    ELSE IF FileState(f, path.val, name.val, "mod_rs") = "parsed"
    THEN Ok("mod_rs")
    ELSE Err(InvalidModule(name.val, path.val))

\* ModuleBuilder::read_module: Ok(the file that was parsed) or Err
read_module(f, name, path) ==
    IF name.tag = "None" THEN Err(MissingName)
    ELSE IF path.tag = "None" THEN Err(MissingPath)
    ELSE IF FileState(f, path.val, name.val, "rs") # "absent"
    THEN IF FileState(f, path.val, name.val, "rs") = "parsed"
         THEN Ok("rs")
         ELSE Err(InvalidModule(name.val, path.val))
    ELSE IF FileState(f, path.val, name.val, "mod_rs") # "absent"
    THEN IF FileState(f, path.val, name.val, "mod_rs") = "parsed"
         THEN Ok("mod_rs")
         ELSE Err(InvalidModule(name.val, path.val))
    ELSE Err(InvalidModule(name.val, path.val))

\* syn::Path::is_ident
is_ident(path, ident) == Len(path) = 1 /\ path[1] = ident

\* a name=value attribute matched by its name
should_include_name_value(annots, attr) ==
    \E i \in 1..Len(annots) : is_ident(attr.path, annots[i])

\* ModuleBuilder::should_include
should_include(annots, attr) ==
    CASE attr.meta = "Path" ->
            \E i \in 1..Len(annots) : is_ident(attr.path, annots[i])
      [] attr.meta = "List" ->
            \E i \in 1..Len(annots) : is_ident(attr.path, annots[i])
      [] OTHER -> FALSE

\* the loop without its `return Ok(())`: one push for each matching attribute
PushesEveryMatch(annots, item) ==
    IF item.vis = "Public"
    THEN Cardinality({i \in 1..Len(item.attrs) :
                         should_include(annots, item.attrs[i])})
    ELSE 0

\* the `for attr in &item.attrs` loop of handle_fn / handle_struct /
\* handle_enum: how many times the item is pushed (it returns at the first
\* attribute that matches)
Pushes(annots, item) ==
    IF item.vis = "Public"
          /\ \E i \in 1..Len(item.attrs) : should_include(annots, item.attrs[i])
    THEN 1
    ELSE 0

\* insert(0, x) instead of push(x)
PushFront(list, x, n) == [i \in 1..n |-> x] \o list

\* Vec::push, n times
PushN(list, x, n) == list \o [i \in 1..n |-> x]

\* ModuleBuilder::handle_fn: the builder afterwards, or the panic of into()
handle_fn(b, annots, item) ==
    IF Pushes(annots, item) = 0 THEN Ok(b)
    ELSE LET f == RsFnFrom(item)
         IN  IF IsOk(f)
             THEN Ok([b EXCEPT !.functions =
                         PushN(@, f.val, Pushes(annots, item))])
             ELSE f

\* ModuleBuilder::handle_struct
handle_struct(b, annots, item) ==
    IF Pushes(annots, item) = 0 THEN Ok(b)
    ELSE LET s == RsStructFrom(item)
         IN  IF IsOk(s)
             THEN Ok([b EXCEPT !.structs =
                         PushN(@, s.val, Pushes(annots, item))])
             ELSE s

\* ModuleBuilder::handle_enum
handle_enum(b, annots, item) ==
    IF Pushes(annots, item) = 0 THEN Ok(b)
    ELSE LET e == RsEnumFrom(item)
         IN  IF IsOk(e)
             THEN Ok([b EXCEPT !.enums =
                         PushN(@, e.val, Pushes(annots, item))])
             ELSE e

\* ModuleBuilder::build
build(b) ==
    Module(b.name, b.path, b.children, b.structs, b.functions, b.enums)

\* the child looked for in the directory named after its parent
ChildPathNested(b) == b.path \o "/" \o b.name

\* handle_mod: .path(self.path.as_ref().unwrap().clone())
ChildPath(b) == b.path

\* handle_mod, after the child's data() returned: self.children.push(res)
PushChild(b, child) == [b EXCEPT !.children = Append(@, child)]

\* the error of the child dropped, the scan going on with the next item
PropagateSkip(stk, e) == [stack |-> stk, result |-> [tag |-> "None"]]

\* the `?` of `.data()?` in handle_mod and of `self.handle_mod(&item)?` in
\* every enclosing data(): the error of the child is the result of the root
\* call and nothing more is scanned
Propagate(stk, e) == [stack |-> <<>>, result |-> Err(e)]

-----------------------------------------------------------------------------
(* The resolver as a state machine *)

NoResult == [tag |-> "None"]
\* the recursion of handle_mod -> data -> handle_mod ran out of stack
Overflow == [tag |-> "Overflow"]

Top == stack[Len(stack)]
CurFile == fs[Top.name][Top.src]
AtEnd == Top.idx > Len(CurFile.items)

\* the item at the position of the loop of data(): the one read before, or
\* any item when this part of the file has not been seen yet
Peek ==
    IF ~AtEnd THEN {CurFile.items[Top.idx]}
    ELSE IF ~CurFile.closed /\ TotalItems(fs) < MaxItems THEN ItemPool
    ELSE {}

FsWith(item) ==
    IF ~AtEnd THEN fs
    ELSE [fs EXCEPT ![Top.name][Top.src].items = Append(@, item)]

Advance(b) == [b EXCEPT !.idx = @ + 1]
SetTop(b) == [stack EXCEPT ![Len(stack)] = b]

InitResolver ==
    /\ annotations \in MarkerSets
    /\ rootName = None
    /\ rootPath = None
    /\ fs = [n \in Names |-> [rs |-> Unread, mod_rs |-> Unread]]
    /\ stack = <<>>
    /\ result = NoResult
    /\ failed = {}
    /\ run = 1
    /\ first = NoResult

Init ==
    /\ InitResolver
    /\ cin = None
    /\ cout = None

Idle == stack = <<>> /\ result = NoResult

\* ModuleBuilder::name (a call that sets the name it already has changes
\* nothing)
Name(name) ==
    /\ Idle /\ run = 1
    /\ rootName # Some(name)
    /\ rootName' = Some(name)
    /\ UNCHANGED <<annotations, rootPath, fs, stack, result, failed, run,
                   first, convVars>>

\* ModuleBuilder::path
Path(path) ==
    /\ Idle /\ run = 1
    /\ rootPath # Some(path)
    /\ rootPath' = Some(path)
    /\ UNCHANGED <<annotations, rootName, fs, stack, result, failed, run,
                   first, convVars>>

\* ModuleBuilder::data of the root builder, up to the start of its loop
Data ==
    /\ Idle
    /\ \E f2 \in RevealRead(fs, rootName, rootPath) :
          LET file == read_module(f2, rootName, rootPath)
          IN  /\ fs' = f2
              /\ IF IsOk(file)
                 THEN /\ stack' = <<ModuleBuilderNew(rootName.val,
                                                     rootPath.val, file.val)>>
                      /\ UNCHANGED <<result, failed>>
                 ELSE /\ result' = file
                      /\ failed' = IF file.err.e = "InvalidModule"
                                   THEN failed \cup {[name |-> rootName.val,
                                                      depth |-> 1,
                                                      before |-> 0,
                                                      kept |-> build(
                                                        ModuleBuilderNew(
                                                          rootName.val,
                                                          rootPath.val,
                                                          "rs"))]}
                                   ELSE failed
                      /\ UNCHANGED stack
    /\ UNCHANGED <<annotations, rootName, rootPath, run, first,
                   convVars>>

\* ModuleBuilder::handle_mod of a `pub mod`: the child builder's data() starts
HandleModCall ==
    /\ stack # <<>> /\ Len(stack) < MaxDepth
    /\ \E item \in Peek :
          /\ item.item = "Mod" /\ item.vis = "Public"
          /\ \E f2 \in RevealRead(FsWith(item), Some(item.ident),
                                  Some(ChildPath(Top))) :
                LET file == read_module(f2, Some(item.ident), Some(ChildPath(Top)))
                IN  /\ IsOk(file)
                    /\ fs' = f2
                    /\ stack' = Append(stack,
                          ModuleBuilderNew(item.ident, ChildPath(Top), file.val))
    /\ UNCHANGED <<annotations, rootName, rootPath, result, failed,
                   run, first, convVars>>

\* ModuleBuilder::handle_mod of a `pub mod` whose read_module fails
HandleModErr ==
    /\ stack # <<>> /\ Len(stack) < MaxDepth
    /\ \E item \in Peek :
          /\ item.item = "Mod" /\ item.vis = "Public"
          /\ \E f2 \in RevealRead(FsWith(item), Some(item.ident),
                                  Some(ChildPath(Top))) :
                LET file == read_module(f2, Some(item.ident), Some(ChildPath(Top)))
                    next == Propagate(SetTop(Advance(Top)), file.err)
                IN  /\ ~IsOk(file)
                    /\ fs' = f2
                    /\ stack' = next.stack
                    /\ result' = next.result
                    /\ failed' = failed \cup
                          {[name |-> item.ident,
                            depth |-> Len(stack) + 1,
                            before |-> Top.idx - 1,
                            kept |-> build(stack[1])]}
    /\ UNCHANGED <<annotations, rootName, rootPath, run, first,
                   convVars>>

\* the recursion is as deep as the thread's stack allows: the process aborts
StackOverflow ==
    /\ stack # <<>> /\ Len(stack) >= MaxDepth
    /\ \E item \in Peek :
          /\ item.item = "Mod" /\ item.vis = "Public"
          /\ fs' = FsWith(item)
    /\ stack' = <<>>
    /\ result' = Overflow
    /\ UNCHANGED <<annotations, rootName, rootPath, failed, run,
                   first, convVars>>

\* the file of a module that is not `pub` looked up all the same
HandleModLookup ==
    /\ stack # <<>>
    /\ \E item \in Peek :
          /\ item.item = "Mod" /\ item.vis # "Public"
          /\ fs' \in RevealRead(FsWith(item), Some(item.ident),
                                Some(Top.path))
    /\ stack' = SetTop(Advance(Top))
    /\ UNCHANGED <<annotations, rootName, rootPath, result, failed,
                   run, first, convVars>>

\* ModuleBuilder::handle_mod of a module that is not `pub`
HandleModSkip ==
    /\ stack # <<>>
    /\ \E item \in Peek :
          /\ item.item = "Mod" /\ item.vis # "Public"
          /\ fs' = FsWith(item)
    /\ stack' = SetTop(Advance(Top))
    /\ UNCHANGED <<annotations, rootName, rootPath, result, failed,
                   run, first, convVars>>

\* one round of the loop of data() on a declaration
Handled(r, f2) ==
    /\ fs' = f2
    /\ IF IsOk(r)
       THEN /\ stack' = SetTop(Advance(r.val))
            /\ UNCHANGED result
       ELSE /\ stack' = <<>>
            /\ result' = r
    /\ UNCHANGED <<annotations, rootName, rootPath, failed, run,
                   first, convVars>>

\* Item::Fn(f) => self.handle_fn(&f)?
HandleFn ==
    /\ stack # <<>>
    /\ \E item \in Peek :
          /\ item.item = "Fn"
          /\ Handled(handle_fn(Top, annotations, item), FsWith(item))

\* Item::Struct(s) => self.handle_struct(&s)?
HandleStruct ==
    /\ stack # <<>>
    /\ \E item \in Peek :
          /\ item.item = "Struct"
          /\ Handled(handle_struct(Top, annotations, item), FsWith(item))

\* Item::Enum(e) => self.handle_enum(&e)?
HandleEnum ==
    /\ stack # <<>>
    /\ \E item \in Peek :
          /\ item.item = "Enum"
          /\ Handled(handle_enum(Top, annotations, item), FsWith(item))

\* _ => continue
HandleOther ==
    /\ stack # <<>>
    /\ \E item \in Peek :
          /\ item.item = "Other"
          /\ fs' = FsWith(item)
    /\ stack' = SetTop(Advance(Top))
    /\ UNCHANGED <<annotations, rootName, rootPath, result, failed,
                   run, first, convVars>>

\* the end of the file, seen now if it was not before
CloseFile == [fs EXCEPT ![Top.name][Top.src].closed = TRUE]

\* the child's data() returns Ok(self): .build(), self.children.push(res)
HandleModReturn ==
    /\ Len(stack) > 1 /\ AtEnd
    /\ fs' = CloseFile
    /\ stack' = [i \in 1..(Len(stack) - 1) |->
                    IF i = Len(stack) - 1
                    THEN Advance(PushChild(stack[i], build(Top)))
                    ELSE stack[i]]
    /\ UNCHANGED <<annotations, rootName, rootPath, result, failed,
                   run, first, convVars>>

\* the root's data() returns Ok(self), and the caller's .build()
Build ==
    /\ Len(stack) = 1 /\ AtEnd
    /\ fs' = CloseFile
    /\ stack' = <<>>
    /\ result' = Ok(build(Top))
    /\ UNCHANGED <<annotations, rootName, rootPath, failed, run,
                   first, convVars>>

\* the caller resolves once more: Module::builder(annotations) with the
\* same name and path, over the same files
ResolveAgain ==
    /\ stack = <<>> /\ result.tag \in {"Ok", "Err"} /\ run = 1
    /\ run' = 2
    /\ first' = result
    /\ result' = NoResult
    /\ failed' = {}
    /\ UNCHANGED <<annotations, rootName, rootPath, fs, stack,
                   convVars>>

Next ==
    \/ \E name \in RootNames : Name(name)
    \/ \E path \in Paths : Path(path)
    \/ Data
    \/ HandleModCall
    \/ HandleModErr
    \/ StackOverflow
    \/ HandleModSkip
    \/ HandleFn
    \/ HandleStruct
    \/ HandleEnum
    \/ HandleOther
    \/ HandleModReturn
    \/ Build
    \/ ResolveAgain

Spec == Init /\ [][Next]_vars

-----------------------------------------------------------------------------
(* Properties of the resolver *)

RECURSIVE Nodes(_)
\* the modules of a tree
Nodes(m) == {m} \cup UNION {Nodes(m.children[i]) : i \in 1..Len(m.children)}

\* the items of the file a module was parsed from
SourceItems(name) ==
    IF fs[name].rs.st = "parsed" THEN fs[name].rs.items
                                 ELSE fs[name].mod_rs.items

Markers == {annotations[i] : i \in 1..Len(annotations)}

\* the attribute is #[m] or #[m(...)] for a marker m
Matching(attr) ==
    /\ attr.meta \in {"Path", "List"}
    /\ \E m \in Markers : attr.path = <<m>>

Included(item) ==
    /\ item.vis = "Public"
    /\ \E i \in 1..Len(item.attrs) : Matching(item.attrs[i])

ListOf(m, kind) ==
    CASE kind = "Fn" -> m.functions
      [] kind = "Struct" -> m.structs
      [] kind = "Enum" -> m.enums

DeclKinds == {"Fn", "Struct", "Enum"}

NamesOf(list) == [i \in 1..Len(list) |-> list[i].name]
IdentsOf(items) == [i \in 1..Len(items) |-> items[i].ident]

\* C1: in every module of a resolved tree, a function, struct or enum of
\* the module's file is in the module's list once when it is `pub` and one
\* of its attributes matches a marker, and not at all otherwise (counted by
\* name: as many entries of a name as there are included items of that name)
C1_Filtering ==
    result.tag = "Ok" =>
        \A m \in Nodes(result.val) : \A kind \in DeclKinds :
            LET src == SourceItems(m.name)
                list == ListOf(m, kind)
            IN  /\ \A i \in 1..Len(src) :
                      src[i].item = kind =>
                          Cardinality({j \in 1..Len(list) :
                                          list[j].name = src[i].ident})
                            = Cardinality({j \in 1..Len(src) :
                                              /\ src[j].item = kind
                                              /\ src[j].ident = src[i].ident
                                              /\ Included(src[j])})
                /\ \A j \in 1..Len(list) :
                      \E i \in 1..Len(src) :
                          /\ src[i].item = kind
                          /\ src[i].ident = list[j].name

\* a resolved root file holding an item with two matching attributes and a
\* private item with a matching attribute
C1_Witness ==
    /\ result.tag = "Ok"
    /\ LET src == SourceItems(result.val.name)
       IN  /\ \E i \in 1..Len(src) :
                 /\ src[i].item = "Fn" /\ src[i].vis = "Public"
                 /\ Cardinality({k \in 1..Len(src[i].attrs) :
                                    Matching(src[i].attrs[k])}) = 2
                 /\ Len(result.val.functions) = 1
           /\ \E i \in 1..Len(src) :
                 /\ src[i].item = "Struct" /\ src[i].vis # "Public"
                 /\ \E k \in 1..Len(src[i].attrs) : Matching(src[i].attrs[k])

\* C2: when neither path/name.rs nor path/name.mod.rs can be read, the
\* resolve call of (name, path) returns InvalidModule with exactly that name
\* and that path
C2_ModuleNotFound ==
    ( /\ rootName.tag = "Some" /\ rootPath.tag = "Some"
      /\ result.tag # "None"
      /\ \/ rootPath.val # SrcDir
         \/ /\ fs[rootName.val].rs.st = "absent"
            /\ fs[rootName.val].mod_rs.st = "absent" )
    => result = Err(InvalidModule(rootName.val, rootPath.val))

\* resolve("lib", "/tmp/doesnotexist") has returned
C2_Witness ==
    /\ rootName = Some("lib")
    /\ rootPath = Some("/tmp/doesnotexist")
    /\ result.tag = "Err"

\* C3: once read_module has failed for a submodule, at whatever depth and
\* after whatever was scanned, the root call has returned InvalidModule with
\* the submodule's name and the path, and no Module
C3_FailureIsFatal ==
    \A x \in failed :
        x.depth >= 2 => result = Err(InvalidModule(x.name, rootPath.val))

\* a submodule failed after an earlier item of its parent was scanned
C3_Witness ==
    \E x \in failed : x.depth >= 2 /\ x.before >= 1

\* C4: an included candidate that cannot be extracted makes the resolve call
\* return an error value: the call never ends in a panic
C4_ExtractionFailureIsReturned == result.tag # "Panic"

\* C5: resolve terminates with a Module or an error, and no module is being
\* resolved inside its own resolution
C5_NoModuleReachedCyclically ==
    /\ result.tag # "Overflow"
    /\ \A i, j \in 1..Len(stack) :
          i # j => stack[i].name # stack[j].name

\* C6: in every module of a resolved tree, children, structs, enums and
\* functions are in the order of their declarations in the file
C6_Ordering ==
    result.tag = "Ok" =>
        \A m \in Nodes(result.val) :
            LET src == SourceItems(m.name)
                IsFn(it) == it.item = "Fn" /\ Included(it)
                IsStruct(it) == it.item = "Struct" /\ Included(it)
                IsEnum(it) == it.item = "Enum" /\ Included(it)
                IsChild(it) == it.item = "Mod" /\ it.vis = "Public"
            IN  /\ NamesOf(m.functions) = IdentsOf(SelectSeq(src, IsFn))
                /\ NamesOf(m.structs) = IdentsOf(SelectSeq(src, IsStruct))
                /\ NamesOf(m.enums) = IdentsOf(SelectSeq(src, IsEnum))
                /\ NamesOf(m.children) = IdentsOf(SelectSeq(src, IsChild))

\* a resolved module with two different functions, or two different children
C6_Witness ==
    /\ result.tag = "Ok"
    /\ \E m \in Nodes(result.val) :
          /\ Len(m.functions) = 2
          /\ m.functions[1].name # m.functions[2].name

Malformed(n) ==
    \/ fs[n].rs.st = "malformed"
    \/ fs[n].rs.st = "absent" /\ fs[n].mod_rs.st = "malformed"

\* C22: once the file read for a module, the root or a submodule, has failed
\* to parse, the resolve call has returned InvalidModule with that module's
\* name and the path; also when name.rs is the malformed file and a valid
\* name.mod.rs exists
C22_MalformedFile ==
    \A n \in Names :
        (Malformed(n) /\ result.tag # "None")
            => result = Err(InvalidModule(n, SrcDir))

\* a.rs is malformed, a.mod.rs is valid, and the call that reached `pub mod a`
\* has returned an error
C22_Witness ==
    /\ fs["a"].rs.st = "malformed"
    /\ fs["a"].mod_rs.st = "parsed"
    /\ result.tag = "Err"

\* some file read so far declares `pub mod n`
PubDeclared(n) ==
    \E m \in Names, slot \in Slots :
        \E i \in 1..Len(fs[m][slot].items) :
            fs[m][slot].items[i] = ItemMod("Public", n)

\* some file read so far declares a `mod n` that is not `pub`
PrivDeclared(n) ==
    \E m \in Names, slot \in Slots :
        \E i \in 1..Len(fs[m][slot].items) :
            /\ fs[m][slot].items[i].item = "Mod"
            /\ fs[m][slot].items[i].ident = n
            /\ fs[m][slot].items[i].vis # "Public"

\* C24: a `mod` declaration that is not `pub` has no effect: the files of a
\* module are looked at only for the root and for modules declared `pub mod`,
\* an error names only such a module, and the children of a resolved module
\* are those of its `pub mod` declarations, as if the other declarations were
\* not there
C24_NonPubModSkipped ==
    /\ \A n \in Names :
          fs[n].rs.st # "unread" => (rootName = Some(n) \/ PubDeclared(n))
    /\ (result.tag = "Err" /\ result.err.e = "InvalidModule")
          => (rootName = Some(result.err.name) \/ PubDeclared(result.err.name))
    /\ result.tag = "Ok" =>
          \A m \in Nodes(result.val) :
              /\ \A i \in 1..Len(m.children) : PubDeclared(m.children[i].name)
              /\ Len(m.children) =
                    Cardinality({i \in 1..Len(SourceItems(m.name)) :
                        /\ SourceItems(m.name)[i].item = "Mod"
                        /\ SourceItems(m.name)[i].vis = "Public"})

\* the root file declares `mod a;`, nothing was looked up for a, and the call
\* returned a Module without children
C24_Witness ==
    /\ result.tag = "Ok"
    /\ PrivDeclared("a")
    /\ ~PubDeclared("a")
    /\ fs["a"].rs.st = "unread"
    /\ fs["a"].mod_rs.st = "unread"
    /\ result.val.children = <<>>

\* the `pub mod` declarations of a file
IsPubMod(it) == it.item = "Mod" /\ it.vis = "Public"

\* C25: a submodule is located with the path of its parent: every builder
\* of the recursion, every error of a submodule and every Module of a
\* resolved tree carries the root path; and a resolved Module has one child
\* for each `pub mod` declaration of its file, named by the declared
\* identifier
C25_ChildrenAndPath ==
    /\ \A i \in 1..Len(stack) : stack[i].path = rootPath.val
    /\ (result.tag = "Err" /\ result.err.e = "InvalidModule")
          => result.err.path = rootPath.val
    /\ result.tag = "Ok" =>
          \A m \in Nodes(result.val) :
              LET decls == SelectSeq(SourceItems(m.name), IsPubMod)
              IN  /\ m.path = rootPath.val
                  /\ Len(m.children) = Len(decls)
                  /\ \A i \in 1..Len(decls) :
                        m.children[i].name = decls[i].ident

\* a resolved tree of three levels
C25_Witness ==
    /\ result.tag = "Ok"
    /\ Len(result.val.children) = 1
    /\ Len(result.val.children[1].children) = 1
    /\ result.val.children[1].children[1].path = SrcDir

RECURSIVE SumOver(_, _)
SumOver(counts, i) == IF i = 0 THEN 0 ELSE counts[i] + SumOver(counts, i - 1)

RECURSIVE Visits(_, _)
\* how many Modules of a tree were built for the module n
Visits(m, n) ==
    (IF m.name = n THEN 1 ELSE 0)
        + SumOver([i \in 1..Len(m.children) |-> Visits(m.children[i], n)],
                  Len(m.children))

\* C27: in one resolve call no module is located and scanned twice: the
\* resolved tree holds at most one Module for a module name
C27_NoRevisits ==
    result.tag = "Ok" => \A n \in Names : Visits(result.val, n) <= 1

\* no file was looked at
NothingRead ==
    \A n \in Names : fs[n].rs.st = "unread" /\ fs[n].mod_rs.st = "unread"

\* C28: whatever name() and path() calls came before, data() without a name
\* returns MissingName, path or no path, and data() with a name and without
\* a path returns MissingPath, in both cases with no file read; otherwise
\* the call works on the name and the path that were set last
C28_BuilderPreconditions ==
    result.tag # "None" =>
        /\ rootName = None => result = Err(MissingName) /\ NothingRead
        /\ (rootName # None /\ rootPath = None)
              => result = Err(MissingPath) /\ NothingRead
        /\ result.tag = "Ok"
              => /\ result.val.name = rootName.val
                 /\ result.val.path = rootPath.val
        /\ (rootName # None /\ rootPath # None /\ NothingRead)
              => result = Err(InvalidModule(rootName.val, rootPath.val))

\* path() was called, name() was not, and data() returned MissingName
C28_Witness ==
    /\ rootName = None
    /\ rootPath # None
    /\ result = Err(MissingName)

\* C29: after data() has returned an error the builder holds what it held
\* before the call, nothing: build() on it gives a Module without children,
\* structs, functions and enums
C29_DataIsAtomic ==
    \A x \in failed :
        /\ x.kept.children = <<>>
        /\ x.kept.structs = <<>>
        /\ x.kept.functions = <<>>
        /\ x.kept.enums = <<>>

-----------------------------------------------------------------------------
(* gen/src/dart.rs: the names of the types on the Dart side *)

\* a text is a sequence of pieces: a literal of the code is one piece, a
\* name is the sequence of its characters
Lit(s) == <<s>>

\* enum RsPrimitive
RsPrimitives ==
    {"I8", "I16", "I32", "I64", "I128", "U8", "U16", "U32", "U64", "U128",
     "F32", "F64", "Bool", "Char", "Str", "String", "Unit"}

\* ConversionError::UnsupportedType
UnsupportedType(ty) == [e |-> "UnsupportedType", ty |-> ty]

Triple(native, ffi, dart) ==
    Ok([native |-> Lit(native), ffi |-> Lit(ffi), dart |-> Lit(dart)])

\* u64 given the name of the 64-bit unsigned integer of dart:ffi
PrimitiveNameWithU64(p) ==
    CASE p = "I8" -> Triple("i8", "ffi.Int8", "int")
      [] p = "I16" -> Triple("i16", "ffi.Int16", "int")
      [] p = "I32" -> Triple("i32", "ffi.Int32", "int")
      [] p = "I64" -> Triple("i64", "ffi.Int64", "int")
      [] p = "I128" -> Err(UnsupportedType(Primitive("I128")))
      [] p = "U8" -> Triple("u8", "ffi.Uint8", "int")
      [] p = "U16" -> Triple("u16", "ffi.Uint16", "int")
      [] p = "U32" -> Triple("u32", "ffi.Uint32", "int")
      [] p = "U64" -> Triple("u64", "ffi.Uint64", "int")
      [] p = "U128" -> Err(UnsupportedType(Primitive("U128")))
      [] p = "F32" -> Triple("f32", "ffi.Float", "double")
      [] p = "F64" -> Triple("f64", "ffi.Double", "double")
      [] p = "Bool" -> Triple("bool", "ffi.Uint8", "bool")
      [] p = "Char" -> Triple("char", "ffi.Int32", "String")
      [] p = "Str" -> Triple("str", "ffi.Pointer<ffi.Utf8>", "String")
      [] p = "String" -> Triple("String", "ffi.Pointer<ffi.Utf8>", "String")
      [] p = "Unit" -> Triple("()", "ffi.Void", "void")

\* impl DartType for RsPrimitive: name()
PrimitiveName(p) ==
    CASE p = "I8" -> Triple("i8", "ffi.Int8", "int")
      [] p = "I16" -> Triple("i16", "ffi.Int16", "int")
      [] p = "I32" -> Triple("i32", "ffi.Int32", "int")
      [] p = "I64" -> Triple("i64", "ffi.Int64", "int")
      [] p = "I128" -> Err(UnsupportedType(Primitive("I128")))
      [] p = "U8" -> Triple("u8", "ffi.Uint8", "int")
      [] p = "U16" -> Triple("u16", "ffi.Uint16", "int")
      [] p = "U32" -> Triple("u32", "ffi.Uint32", "int")
      [] p = "U64" -> Err(UnsupportedType(Primitive("U64")))
      [] p = "U128" -> Err(UnsupportedType(Primitive("U128")))
      [] p = "F32" -> Triple("f32", "ffi.Float", "double")
      [] p = "F64" -> Triple("f64", "ffi.Double", "double")
      [] p = "Bool" -> Triple("bool", "ffi.Uint8", "bool")
      [] p = "Char" -> Triple("char", "ffi.Int32", "String")
      [] p = "Str" -> Triple("str", "ffi.Pointer<ffi.Utf8>", "String")
      [] p = "String" -> Triple("String", "ffi.Pointer<ffi.Utf8>", "String")
      [] p = "Unit" -> Triple("()", "ffi.Void", "void")

\* char::to_uppercase / to_lowercase / is_uppercase / is_lowercase on the
\* letters that occur in the names; "ß" is a lowercase letter whose uppercase
\* is the two letters "SS"
LowerLetters == <<"a", "b", "h", "e", "l", "o", "w", "r", "d", "s">>
UpperLetters == <<"A", "B", "H", "E", "L", "O", "W", "R", "D", "S">>
IndexIn(letters, c) == CHOOSE i \in 1..Len(letters) : letters[i] = c
IsIn(letters, c) == \E i \in 1..Len(letters) : letters[i] = c

is_uppercase(c) == IsIn(UpperLetters, c)
is_lowercase(c) == IsIn(LowerLetters, c) \/ c = "ß"
to_uppercase(c) ==
    IF c = "ß" THEN <<"S", "S">>
    ELSE IF IsIn(LowerLetters, c)
    THEN <<UpperLetters[IndexIn(LowerLetters, c)]>>
    ELSE <<c>>
to_lowercase(c) ==
    IF IsIn(UpperLetters, c) THEN <<LowerLetters[IndexIn(UpperLetters, c)]>>
    ELSE <<c>>

RECURSIVE SnakeOfNotLower(_)
\* `!c.is_lowercase()` where the loop has `c.is_uppercase()`
SnakeOfNotLower(name) ==
    IF name = <<>> THEN <<>>
    ELSE LET c == Head(name)
         IN  IF ~is_lowercase(c)
             THEN IF Len(name) >= 2
                  THEN (IF is_lowercase(name[2]) THEN <<"_">> ELSE <<>>)
                         \o <<to_lowercase(c)[1]>>
                         \o SnakeOfNotLower(SubSeq(name, 3, Len(name)))
                  ELSE <<to_lowercase(c)[1]>>
             ELSE <<c>> \o SnakeOfNotLower(Tail(name))

RECURSIVE SnakeOf(_)
\* the loop of Named::snake_case_name over the characters of the camel-case
\* name: at an uppercase character the next character is taken from the
\* iterator too
SnakeOf(name) ==
    IF name = <<>> THEN <<>>
    ELSE LET c == Head(name)
         IN  IF is_uppercase(c)
             THEN IF Len(name) >= 2
                  THEN (IF is_lowercase(name[2]) THEN <<"_">> ELSE <<>>)
                         \o <<to_lowercase(c)[1]>>
                         \o SnakeOf(SubSeq(name, 3, Len(name)))
                  ELSE <<to_lowercase(c)[1]>>
             ELSE <<c>> \o SnakeOf(Tail(name))

RECURSIVE Split(_)
\* name.split('_'): the segments between the underscores, at least one
Split(name) ==
    IF \A i \in 1..Len(name) : name[i] # "_" THEN <<name>>
    ELSE LET i == CHOOSE k \in 1..Len(name) :
                      /\ name[k] = "_"
                      /\ \A j \in 1..(k - 1) : name[j] # "_"
         IN  <<SubSeq(name, 1, i - 1)>>
                 \o Split(SubSeq(name, i + 1, Len(name)))

\* the closure given to map: the first character uppercased
Capitalize(seg) ==
    IF seg = <<>> THEN <<>> ELSE to_uppercase(Head(seg)) \o Tail(seg)

RECURSIVE Join(_)
Join(segs) == IF segs = <<>> THEN <<>> ELSE Head(segs) \o Join(Tail(segs))

\* only the first segment capitalized
PascalOfFirstOnly(name) ==
    LET segs == Split(name)
    IN  Capitalize(Head(segs)) \o Join(Tail(segs))

\* the body of Named::pascal_case_name on the snake-case name
PascalOf(name) ==
    LET segs == Split(name)
        caps == [i \in 1..Len(segs) |-> Capitalize(segs[i])]
    IN  Head(caps) \o Join(Tail(caps))

\* the body of Named::camel_case_name on the Pascal-case name
CamelOf(name) ==
    IF name = <<>> THEN <<>> ELSE to_lowercase(Head(name)) \o Tail(name)

\* a value of a type that implements Named: `named` tells which of the three
\* methods the impl overrides with `self.name.clone()`
NamedEntity(named, name) == [named |-> named, name |-> name]

RECURSIVE snake_case_name(_), pascal_case_name(_), camel_case_name(_)
snake_case_name(self) ==
    IF self.named = "snake" THEN self.name
    ELSE SnakeOf(camel_case_name(self))
pascal_case_name(self) ==
    IF self.named = "pascal" THEN self.name
    ELSE PascalOf(snake_case_name(self))
camel_case_name(self) ==
    IF self.named = "camel" THEN self.name
    ELSE CamelOf(pascal_case_name(self))

\* RsType::Struct, RsType::Enum and RsType::Fn
StructType(s) == [k |-> "Struct", s |-> s]
EnumType(e) == [k |-> "Enum", e |-> e]
FnType(f) == [k |-> "Fn", f |-> f]

\* (native, ffi, dart), each of them a text
Names3(native, ffi, dart) ==
    Ok([native |-> native, ffi |-> ffi, dart |-> dart])

\* impl DartType for RsType: name
RECURSIVE TypeName(_)
TypeName(self) ==
    CASE self.k = "Primitive" -> PrimitiveName(self.p)
      [] self.k = "Struct" ->
            LET s == NamedEntity("pascal", self.s.name)
            IN  Names3(pascal_case_name(s), pascal_case_name(s),
                       pascal_case_name(s))
      [] self.k = "Enum" ->
            LET e == NamedEntity("pascal", self.e.name)
            IN  Names3(pascal_case_name(e), pascal_case_name(e),
                       pascal_case_name(e))
      [] self.k = "Fn" ->
            LET f == NamedEntity("snake", self.f.name)
            IN  Names3(snake_case_name(f), snake_case_name(f),
                       pascal_case_name(f))
      [] self.k = "Tuple" -> Panic("not yet implemented")
      [] self.k = "Pointer" ->
            LET p == TypeName(self.ty)
            IN  IF IsOk(p)
                THEN Names3(Lit("*mut ") \o p.val.native,
                            Lit("ffi.Pointer<") \o p.val.ffi \o Lit(">"),
                            Lit("ffi.Pointer<") \o p.val.dart \o Lit(">"))
                ELSE p

\* impl DartField for RsField: display(true), the names of the field's type
DisplayTypeOnly(field) == TypeName(field.ty)

RECURSIVE JoinWith(_, _)
\* Vec<String>::join(sep)
JoinWith(texts, sep) ==
    IF texts = <<>> THEN <<>>
    ELSE IF Len(texts) = 1 THEN texts[1]
    ELSE texts[1] \o Lit(sep) \o JoinWith(Tail(texts), sep)

\* the first element of a list of results that is no Ok, or Ok(the values)
FirstFailure(results) ==
    IF \A i \in 1..Len(results) : IsOk(results[i])
    THEN Ok([i \in 1..Len(results) |-> results[i].val])
    ELSE results[CHOOSE i \in 1..Len(results) :
                    /\ ~IsOk(results[i])
                    /\ \A j \in 1..(i - 1) : IsOk(results[j])]

\* impl DartFn for RsFn: typedef
Typedef(self) ==
    LET fn == NamedEntity("snake", self.name)
        native_name == snake_case_name(fn)
        ffi_type_name == snake_case_name(fn)
        dart_type_name == pascal_case_name(fn)
        name == camel_case_name(fn)
        args == FirstFailure([i \in 1..Len(self.args) |->
                                 DisplayTypeOnly(self.args[i])])
        ret == TypeName(self.ret)
    IN  IF ~IsOk(args) THEN args
        ELSE IF ~IsOk(ret) THEN ret
        ELSE LET ffi_args ==
                     JoinWith([i \in 1..Len(args.val) |-> args.val[i].ffi],
                              ", ")
                 dart_args ==
                     JoinWith([i \in 1..Len(args.val) |-> args.val[i].dart],
                              ", ")
             IN  Ok([ffi_typedef |->
                        Lit("typedef ") \o ffi_type_name \o Lit(" = ")
                            \o ret.val.ffi \o Lit(" Function(")
                            \o ffi_args \o Lit(");"),
                     dart_typedef |->
                        Lit("typedef ") \o dart_type_name \o Lit(" = ")
                            \o ret.val.dart \o Lit(" Function(")
                            \o dart_args \o Lit(");"),
                     fn_linker |->
                        Lit("final ") \o dart_type_name \o Lit(" ")
                            \o name
                            \o Lit(" = dylib().lookup<ffi.NativeFunction<")
                            \o ffi_type_name \o Lit(">>('")
                            \o native_name \o Lit("').asFunction();")])

\* DartFileBuilder::new
DartFileBuilderNew ==
    [type_defs |-> <<>>, module_name |-> None, lib_path |-> <<>>,
     lib_name |-> None, fn_linkers |-> <<>>]

\* DartFileBuilder::add_fn: the builder afterwards and what is returned
add_fn(self, f) ==
    LET t == Typedef(f)
    IN  IF IsOk(t)
        THEN [self |-> [self EXCEPT
                           !.type_defs = @ \o <<t.val.ffi_typedef,
                                                t.val.dart_typedef>>,
                           !.fn_linkers = Append(@, t.val.fn_linker)],
              res |-> Ok(<<>>)]
        ELSE [self |-> self, res |-> t]

-----------------------------------------------------------------------------
(* The conversions applied to bounded syn values *)

TypeIdents == {"i32", "bool", "u128", "Foo", "Option"}
GenericIdents == {"Option", "Vec"}
ArrayLens == {LitInt(0), LitInt(4), LitIntWide, LitStr, ExprPath("N")}

RECURSIVE Types(_)
\* the syn types nested at most d deep
Types(d) ==
    IF d = 0
    THEN {PathOf(id) : id \in TypeIdents} \cup {TypeTuple(<<>>)}
    ELSE LET T == Types(d - 1)
         IN  T \cup {Generic1(id, t) : id \in GenericIdents, t \in T}
               \cup {TypeArray(t, len) : t \in T, len \in ArrayLens}
               \cup {TypePtr(t) : t \in T}
               \cup {TypeReference(t) : t \in T}
               \cup {TypeSlice(t) : t \in T}
               \cup {TypeTuple(<<t>>) : t \in T}
               \cup {TypePath(<<Seg("i32", NoArgs),
                                Seg("Option", Angle(<<GType(t)>>))>>) :
                        t \in T}
               \cup {TypePath(<<Seg("Option",
                                    Angle(<<GType(t), GType(t)>>))>>) :
                        t \in T}
               \cup {TypePath(<<Seg("Option", Angle(<<>>))>>),
                     TypePath(<<Seg("Option", Angle(<<GLifetime>>))>>),
                     TypePath(<<Seg("Fn", ParenArgs)>>)}

FieldTypes ==
    Types(0) \cup {Generic1("Option", I32),
                   TypeArray(PathOf("bool"), LitInt(4))}
FieldIdents == <<"x", "y", "z", "w">>

\* structs with named fields, and tuple structs, of up to MaxFields fields
StructInputs ==
    {ItemStruct("Public", <<>>, "S",
                [i \in 1..n |->
                    Field(IF named THEN Some(FieldIdents[i]) ELSE None,
                          tys[i])]) :
        n \in 1..MaxFields, named \in BOOLEAN,
        tys \in [1..MaxFields -> FieldTypes]}

\* functions of up to MaxFields arguments
ArgPool ==
    {ArgReceiver, ArgTyped(PatIdent("x"), I32),
     ArgTyped(PatIdent("y"), PathOf("Foo")), ArgTyped(PatWild, I32),
     ArgTyped(PatIdent("z"), TypeTuple(<<I32>>))}
FnInputs ==
    {ItemFn("Public", <<>>, "f", [i \in 1..n |-> args[i]], out) :
        n \in 0..MaxFields, args \in [1..MaxFields -> ArgPool],
        out \in {ReturnDefault, ReturnType(I32), ReturnType(PathOf("Foo"))}}

\* enums of up to MaxFields variants, each without fields or with one field
VariantPool ==
    {Variant("A", <<>>)}
        \cup {Variant("B", <<Field(id, ty)>>) :
                 id \in {None, Some("x")},
                 ty \in {I32, PathOf("Foo"), TypeTuple(<<I32>>)}}
EnumInputs ==
    {ItemEnum("Public", <<>>, "E", [i \in 1..n |-> vs[i]]) :
        n \in 0..MaxFields, vs \in [1..MaxFields -> VariantPool]}

\* the characters of the enumerated names, and the names of the tests
NameChars == {"a", "b", "A", "_", "1", "ß"}
RECURSIVE NamesUpTo(_)
NamesUpTo(n) ==
    IF n = 0 THEN {<<>>}
    ELSE LET S == NamesUpTo(n - 1)
         IN  S \cup {Append(x, c) : x \in S, c \in NameChars}
hello_world == <<"h", "e", "l", "l", "o", "_", "w", "o", "r", "l", "d">>
HelloWorld == <<"H", "e", "l", "l", "o", "W", "o", "r", "l", "d">>
helloWorld == <<"h", "e", "l", "l", "o", "W", "o", "r", "l", "d">>
NameInputs ==
    (NamesUpTo(MaxNameLen) \ {<<>>})
        \cup {hello_world, HelloWorld, helloWorld}
\* impl_named!(pascal: RsStruct, RsEnum, RsVariant), impl_named!(snake: RsField,
\* RsFn) and the NamedObject of the tests: no type overrides camel_case_name
NamedKinds == {"snake", "pascal"}

\* paths without arguments: every spelling of the table, and names not in it
PathIdents ==
    {"i8", "i16", "i32", "i64", "i128", "u8", "u16", "u32", "u64", "u128",
     "f32", "f64", "bool", "char", "str", "String", "Char", "string", "unit",
     "Unit", "Foo", "I32", "usize", "()"}
PathInputs ==
    {PathOf(id) : id \in PathIdents}
        \cup {TypePath(<<Seg("std", NoArgs), Seg("String", NoArgs)>>),
              TypePath(<<Seg("u8", NoArgs), Seg("Foo", NoArgs)>>)}

\* declared types: their members are i32, which dart:ffi has, or u128, which
\* it has not
MemberTypes == {Primitive("I32"), Primitive("U128")}
MemberNames == <<"x", "y", "z", "w">>
Members(n) ==
    {[i \in 1..n |-> RsField(MemberNames[i], tys[i])] :
        tys \in [1..n -> MemberTypes]}
MemberLists == UNION {Members(n) : n \in 0..MaxFields}
DeclaredTypes ==
    {StructType(RsStruct(<<"S">>, ms)) : ms \in MemberLists}
        \cup {EnumType(RsEnum(<<"E">>, <<RsVariant("V", ms)>>)) :
                 ms \in MemberLists}
        \cup {FnType(RsFn(<<"g", "o", "_", "o", "n">>, ms, r)) :
                 ms \in MemberLists, r \in MemberTypes}
RECURSIVE PointersTo(_, _)
PointersTo(d, S) ==
    IF d = 0 THEN S
    ELSE LET P == PointersTo(d - 1, S) IN P \cup {Pointer(t) : t \in P}
RsTypeInputs ==
    PointersTo(MaxTypeDepth,
               DeclaredTypes \cup MemberTypes
                   \cup {Tuple(<<>>), Tuple(<<Primitive("I32")>>)})

\* a builder whose name and path are set or not, and what the two files of
\* the module are
ReadInputs ==
    {[name |-> n, path |-> p, rs |-> s1, mod_rs |-> s2] :
        n \in {None} \cup {Some(x) : x \in Names},
        p \in {None} \cup {Some(x) : x \in Paths},
        s1 \in FileStates, s2 \in FileStates}
\* the files of a ReadInputs value
FilesOf(v) ==
    [n \in Names |->
        IF v.name = Some(n)
        THEN [rs |-> [Unread EXCEPT !.st = v.rs],
              mod_rs |-> [Unread EXCEPT !.st = v.mod_rs]]
        ELSE [rs |-> [Unread EXCEPT !.st = "absent"],
              mod_rs |-> [Unread EXCEPT !.st = "absent"]]]

\* attributes whose path is a marker, contains one, is a prefix of one or
\* differs from one in case, in the three forms of syn::Meta
AttrPaths ==
    {<<"export">>, <<"flusty">>, <<"exported">>, <<"exp">>, <<"Export">>,
     <<"flusty", "export">>, <<"export", "flusty">>}
AttrInputs ==
    {[annots |-> an, attr |-> at] :
        an \in MarkerSets \cup {<<>>},
        at \in {MetaPath(p) : p \in AttrPaths}
                  \cup {MetaList(p) : p \in AttrPaths}
                  \cup {MetaNameValue(p) : p \in AttrPaths}}

\* functions given to add_fn: arguments and return type with names in
\* dart:ffi (i32), without (u128), or a tuple
DartFnArgs ==
    {<<>>,
     <<RsField("x", Primitive("I32"))>>,
     <<RsField("x", Primitive("U128"))>>,
     <<RsField("x", Primitive("I32")), RsField("y", Primitive("U128"))>>,
     <<RsField("x", Primitive("I32")), RsField("y", Primitive("Bool"))>>,
     <<RsField("x", Tuple(<<>>))>>}
DartFns ==
    {RsFn(n, args, ret) :
        n \in {<<"f">>, <<"g", "o", "_", "o", "n">>},
        args \in DartFnArgs,
        ret \in {Primitive("Unit"), Primitive("U64")}}

ConvInputs ==
    {[kind |-> "Type", value |-> t] : t \in Types(MaxTypeDepth) \cup PathInputs}
        \cup {[kind |-> "Struct", value |-> s] : s \in StructInputs}
        \cup {[kind |-> "Fn", value |-> f] : f \in FnInputs}
        \cup {[kind |-> "Enum", value |-> e] : e \in EnumInputs}
        \cup {[kind |-> "Primitive", value |-> Primitive(p)] :
                 p \in RsPrimitives}
        \cup {[kind |-> "Named", value |-> NamedEntity(k, n)] :
                 k \in NamedKinds, n \in NameInputs}
        \cup {[kind |-> "RsType", value |-> ty] : ty \in RsTypeInputs}
        \cup {[kind |-> "Read", value |-> v] : v \in ReadInputs}
        \cup {[kind |-> "Attr", value |-> v] : v \in AttrInputs}
        \cup {[kind |-> "Builder", value |-> DartFileBuilderNew]}

InitConv ==
    /\ annotations = <<>>
    /\ rootName = None
    /\ rootPath = None
    /\ fs = [n \in Names |-> [rs |-> Unread, mod_rs |-> Unread]]
    /\ stack = <<>>
    /\ result = NoResult
    /\ failed = {}
    /\ run = 1
    /\ first = NoResult
    /\ cin \in ConvInputs
    /\ cout = None

Converted(by, res) ==
    /\ cout = None
    /\ cout' = [by |-> by, res |-> res]
    /\ UNCHANGED <<cin, resolverVars>>

\* RsType::from(ty), parser/src/rust/types.rs
TypeFrom == cin.kind = "Type" /\ Converted("from", RsTypeFrom(cin.value))

\* RsType::try_from(&ty), parser/src/types.rs
TypeTryFrom ==
    cin.kind = "Type" /\ Converted("try_from", RsTypeTryFrom(cin.value))

\* RsStruct::try_from(&item), parser/src/types.rs
StructTryFrom ==
    cin.kind = "Struct" /\ Converted("try_from", RsStructTryFrom(cin.value))

\* RsStruct::from(item), parser/src/rust/types.rs
StructFrom ==
    cin.kind = "Struct" /\ Converted("from", RsStructFrom(cin.value))

\* RsFn::from(item), parser/src/rust/types.rs
FnFrom == cin.kind = "Fn" /\ Converted("from", RsFnFrom(cin.value))

\* RsFn::try_from(&item), parser/src/types.rs
FnTryFrom == cin.kind = "Fn" /\ Converted("try_from", RsFnTryFrom(cin.value))

\* RsEnum::from(item), parser/src/rust/types.rs
EnumFrom == cin.kind = "Enum" /\ Converted("from", RsEnumFrom(cin.value))

\* RsEnum::try_from(&item), parser/src/types.rs
EnumTryFrom ==
    cin.kind = "Enum" /\ Converted("try_from", RsEnumTryFrom(cin.value))

\* RsStruct::try_from(&item), rua_parser/src/types.rs
StructRua ==
    cin.kind = "Struct" /\ Converted("rua", RuaRsStructTryFrom(cin.value))

\* RsPrimitive::name(), gen/src/dart.rs
NameOfPrimitive ==
    cin.kind = "Primitive" /\ Converted("name", PrimitiveName(cin.value.p))

\* Named::snake_case_name, gen/src/dart.rs
SnakeCaseName ==
    cin.kind = "Named" /\ Converted("snake", Ok(snake_case_name(cin.value)))

\* Named::pascal_case_name
PascalCaseName ==
    cin.kind = "Named" /\ Converted("pascal", Ok(pascal_case_name(cin.value)))

\* Named::camel_case_name
CamelCaseName ==
    cin.kind = "Named" /\ Converted("camel", Ok(camel_case_name(cin.value)))

\* DartType::name of an RsType
NameOfType ==
    cin.kind = "RsType" /\ Converted("name", TypeName(cin.value))

\* ModuleBuilder::read_module of a builder over two files
ReadModule ==
    /\ cin.kind = "Read"
    /\ Converted("read_module",
                 read_module(FilesOf(cin.value), cin.value.name,
                             cin.value.path))

\* ModuleBuilder::should_include of a builder with the given markers
ShouldInclude ==
    /\ cin.kind = "Attr"
    /\ Converted("should_include",
                 Ok(should_include(cin.value.annots, cin.value.attr)))

\* builder.add_fn(&f) on the new DartFileBuilder, or on the builder as the
\* calls before left it
AddFn ==
    /\ cin.kind = "Builder"
    /\ cout # None => cout.res.tag # "Panic" /\ cout.calls < MaxItems
    /\ \E f \in DartFns :
          LET before == IF cout = None THEN cin.value ELSE cout.builder
              r == add_fn(before, f)
          IN  cout' = [by |-> "add_fn", res |-> r.res, builder |-> r.self,
                       before |-> before, f |-> f,
                       fns |-> IF cout = None THEN <<f>>
                               ELSE Append(cout.fns, f),
                       calls |-> IF cout = None THEN 1 ELSE cout.calls + 1]
    /\ UNCHANGED <<cin, resolverVars>>

NextConv ==
    \/ TypeFrom
    \/ TypeTryFrom
    \/ StructTryFrom
    \/ StructRua
    \/ StructFrom
    \/ FnFrom
    \/ FnTryFrom
    \/ EnumFrom
    \/ EnumTryFrom
    \/ NameOfPrimitive
    \/ SnakeCaseName
    \/ PascalCaseName
    \/ CamelCaseName
    \/ NameOfType
    \/ ReadModule
    \/ ShouldInclude
    \/ AddFn

SpecConv == InitConv /\ [][NextConv]_vars

-----------------------------------------------------------------------------
(* Properties of the conversions *)

\* `Option<T>`: the path Option with exactly one generic argument, a type
IsOption1(ty) ==
    /\ ty.t = "Path"
    /\ Len(ty.segments) = 1
    /\ ty.segments[1].ident = "Option"
    /\ ty.segments[1].arguments.a = "AngleBracketed"
    /\ Len(ty.segments[1].arguments.args) = 1
    /\ ty.segments[1].arguments.args[1].g = "Type"

ConvertBy(by, ty) ==
    IF by = "from" THEN RsTypeFrom(ty) ELSE RsTypeTryFrom(ty)

\* C8: converting Option<T> gives Pointer{pointee: convert(T), mutable: true}
C8_OptionIsMutablePointer ==
    ( /\ cout # None
      /\ cin.kind = "Type"
      /\ IsOption1(cin.value) )
    => LET inner == ConvertBy(cout.by, cin.value.segments[1].arguments.args[1].ty)
       IN  IsOk(inner) => cout.res = Ok(RsPointer(inner.val, TRUE))

\* C9: an array with a literal integer length n and an element type that
\* converts to E converts to Array{E, n}, so [bool; 4] to
\* Array{Primitive(Bool), 4}; an array with a length that is not a literal
\* gives UnknownArrayLength
C9_ArrayConversion ==
    ( /\ cout # None
      /\ cin.kind = "Type"
      /\ cin.value.t = "Array" )
    => LET elem == ConvertBy(cout.by, cin.value.elem)
           len == cin.value.len
       IN  /\ (len.e = "Lit" /\ len.lit = "Int" /\ IsOk(elem))
                 => /\ cout.res.tag = "Ok"
                    /\ cout.res.val.k = "Array"
                    /\ cout.res.val.ty = elem.val
                    /\ len.fits => cout.res.val.len = len.value
           /\ len.e # "Lit"
                 => cout.res = Err(UnknownArrayLength("Type::Array",
                                                      "Unknown array length"))

RECURSIVE Innermost(_)
\* the end of the cause links of an error
Innermost(e) ==
    IF "source" \in DOMAIN e /\ e.source.tag = "Some"
    THEN Innermost(e.source.val)
    ELSE e

\* the error names the type `id`
NamesType(e, id) ==
    \/ "ty" \in DOMAIN e /\ e.ty = id
    \/ "src" \in DOMAIN e /\ e.src = Some(id)

FieldsOfType(item, id) ==
    {i \in 1..Len(item.fields) : item.fields[i].ty = PathOf(id)}

\* C10: extracting a struct with one u128 field, its other fields named i32
\* fields, fails as a whole with a ConversionError, and the innermost cause
\* of that error names u128
C10_FailurePropagation ==
    ( /\ cout # None
      /\ cout.by \in {"try_from", "rua"}
      /\ cin.kind = "Struct"
      /\ Cardinality(FieldsOfType(cin.value, "u128")) = 1
      /\ \A i \in 1..Len(cin.value.fields) :
            /\ cin.value.fields[i].ident.tag = "Some"
            /\ cin.value.fields[i].ty \in {PathOf("u128"), I32} )
    => /\ cout.res.tag = "Err"
       /\ NamesType(Innermost(cout.res.err), "u128")

\* C11: the name triple of a primitive is an error for I128, U128 and U64,
\* and three names for each of the fourteen other variants
C11_PrimitiveCoverage ==
    (cout # None /\ cin.kind = "Primitive")
    => /\ cin.value.p \in {"I128", "U128", "U64"}
             => cout.res = Err(UnsupportedType(cin.value))
       /\ cin.value.p \in {"I8", "I16", "I32", "I64", "U8", "U16", "U32",
                         "F32", "F64", "Bool", "Char", "Str", "String",
                         "Unit"}
             => /\ cout.res.tag = "Ok"
                /\ \A v \in {cout.res.val.native, cout.res.val.ffi,
                             cout.res.val.dart} : Len(v) > 0

\* the name triple of U64 was asked for
C11_Witness ==
    /\ cout # None
    /\ cin.kind = "Primitive"
    /\ cin.value = Primitive("U64")
    /\ cout.res.tag = "Err"

\* a lower-snake name: no character of it is uppercase
IsLowerSnake(name) == \A i \in 1..Len(name) : ~is_uppercase(name[i])

\* the value with the given text as its stored name
Renamed(name) == [cin.value EXCEPT !.name = name]

\* C12: snake_case_name of a value whose stored name is lower-snake is the
\* stored name; and the camel-case name of the Pascal-case name of the
\* camel-case name of s is the camel-case name of s
C12_NamingIdempotence ==
    (cout # None /\ cin.kind = "Named")
    => /\ (cout.by = "snake" /\ IsLowerSnake(cin.value.name))
             => cout.res.val = cin.value.name
       /\ cout.by = "camel"
             => camel_case_name(Renamed(pascal_case_name(Renamed(cout.res.val))))
                  = cout.res.val

\* snake_case_name was computed, by the loop, for a stored lower-snake name
\* with an underscore and a digit
C12_Witness ==
    /\ cout # None
    /\ cin = [kind |-> "Named",
              value |-> NamedEntity("pascal", <<"a", "_", "b", "1">>)]
    /\ cout.by = "snake"

RECURSIVE Capitalized(_, _)
\* the characters of the segments between the underscores, the first
\* character of each segment uppercased
Capitalized(name, atStart) ==
    IF name = <<>> THEN <<>>
    ELSE IF Head(name) = "_" THEN Capitalized(Tail(name), TRUE)
    ELSE (IF atStart THEN to_uppercase(Head(name)) ELSE <<Head(name)>>)
            \o Capitalized(Tail(name), FALSE)

\* C13: for a value whose stored name is the snake-case name, and
\* lower-snake, pascal_case_name is the segments between the underscores,
\* each with its first character uppercased, and camel_case_name is that with
\* its first character lowercased: hello_world gives HelloWorld and helloWorld
C13_CaseTransforms ==
    ( /\ cout # None
      /\ cin.kind = "Named"
      /\ cin.value.named = "snake"
      /\ IsLowerSnake(cin.value.name) )
    => LET pascal == Capitalized(cin.value.name, TRUE)
       IN  /\ cout.by = "pascal" => cout.res.val = pascal
           /\ cout.by = "camel"
                 => cout.res.val =
                       IF pascal = <<>> THEN <<>>
                       ELSE to_lowercase(Head(pascal)) \o Tail(pascal)
           /\ cin.value.name = hello_world
                 => /\ cout.by = "pascal" => cout.res.val = HelloWorld
                    /\ cout.by = "camel" => cout.res.val = helloWorld

\* camel_case_name of the stored name hello_world was computed
C13_Witness ==
    /\ cout # None
    /\ cin = [kind |-> "Named", value |-> NamedEntity("snake", hello_world)]
    /\ cout.by = "camel"
    /\ cout.res.val = helloWorld

\* C14: no type makes a conversion panic: whatever the type, the conversion
\* returns a type or an error value
C14_NoConversionPanics ==
    (cout # None /\ cin.kind = "Type") => cout.res.tag \in {"Ok", "Err"}

\* C15: extracting a function with a receiver among its arguments, at any
\* position and with any other arguments, fails with the error ReceiverField
C15_ReceiverRejected ==
    ( /\ cout # None
      /\ cin.kind = "Fn"
      /\ \E i \in 1..Len(cin.value.inputs) :
            cin.value.inputs[i].arg = "Receiver" )
    => /\ cout.res.tag = "Err"
       /\ cout.res.err.e = "ReceiverField"

\* the members of a syn item and of the declaration extracted from it
MembersOfItem(item) ==
    CASE item.item = "Struct" -> item.fields
      [] item.item = "Enum" -> item.variants
      [] item.item = "Fn" -> item.inputs
MembersOfDecl(kind, decl) ==
    CASE kind = "Struct" -> decl.fields
      [] kind = "Enum" -> decl.variants
      [] kind = "Fn" -> decl.args
MemberIdent(kind, member) ==
    CASE kind = "Struct" -> member.ident.val
      [] kind = "Enum" -> member.ident
      [] kind = "Fn" -> member.pat.ident

\* C16: extracting a struct, enum or function returns either a declaration
\* with every field, variant or argument of the item, in source order, or an
\* error
C16_AllOrNothing ==
    ( /\ cout # None
      /\ cin.kind \in {"Struct", "Enum", "Fn"}
      /\ cout.by \in {"try_from", "rua"} )
    => \/ cout.res.tag = "Err"
       \/ /\ cout.res.tag = "Ok"
          /\ LET src == MembersOfItem(cin.value)
                 out == MembersOfDecl(cin.kind, cout.res.val)
             IN  /\ Len(out) = Len(src)
                 /\ \A i \in 1..Len(src) :
                       out[i].name = MemberIdent(cin.kind, src[i])

\* the variant of each language-native spelling of a primitive type
NativeVariant ==
    [id \in {"i8", "i16", "i32", "i64", "i128", "u8", "u16", "u32", "u64",
             "u128", "f32", "f64", "bool", "char", "str", "String"} |->
        CASE id = "i8" -> "I8" [] id = "i16" -> "I16" [] id = "i32" -> "I32"
          [] id = "i64" -> "I64" [] id = "i128" -> "I128" [] id = "u8" -> "U8"
          [] id = "u16" -> "U16" [] id = "u32" -> "U32" [] id = "u64" -> "U64"
          [] id = "u128" -> "U128" [] id = "f32" -> "F32" [] id = "f64" -> "F64"
          [] id = "bool" -> "Bool" [] id = "char" -> "Char"
          [] id = "str" -> "Str" [] id = "String" -> "String"]

\* the spellings the table has besides the native ones
AliasVariant ==
    [id \in {"Char", "string", "unit", "Unit"} |->
        CASE id = "Char" -> "Char" [] id = "string" -> "String"
          [] OTHER -> "Unit"]

\* a path without generic arguments was converted by RsType::try_from
PathConverted ==
    /\ cout # None
    /\ cout.by = "try_from"
    /\ cin.kind = "Type"
    /\ cin.value.t = "Path"
    /\ \A i \in 1..Len(cin.value.segments) :
          cin.value.segments[i].arguments.a = "None"

\* C17, as claimed: a path of one identifier without generic arguments
\* converts to Primitive(p) exactly when the identifier is one of the sixteen
\* native spellings, p the variant of that name; every other identifier
\* gives UnknownPrimitive carrying the identifier
C17_PrimitiveTable ==
    (PathConverted /\ Len(cin.value.segments) = 1)
    => LET id == cin.value.segments[1].ident
       IN  IF id \in DOMAIN NativeVariant
           THEN cout.res = Ok(Primitive(NativeVariant[id]))
           ELSE /\ cout.res.tag = "Err"
                /\ cout.res.err.e = "UnknownPrimitive"
                /\ cout.res.err.ty = id

\* C17, amended: a path without generic arguments converts by its first
\* identifier: to Primitive(p) exactly when that is one of the sixteen native
\* spellings or one of Char, string, unit, Unit (Char, String, Unit, Unit);
\* every other first identifier gives UnknownPrimitive carrying it
C17_PrimitiveTableAmended ==
    (PathConverted /\ Len(cin.value.segments) >= 1)
    => LET id == cin.value.segments[1].ident
       IN  IF id \in DOMAIN NativeVariant
           THEN cout.res = Ok(Primitive(NativeVariant[id]))
           ELSE IF id \in DOMAIN AliasVariant
           THEN cout.res = Ok(Primitive(AliasVariant[id]))
           ELSE /\ cout.res.tag = "Err"
                /\ cout.res.err.e = "UnknownPrimitive"
                /\ cout.res.err.ty = id

\* the path `Unit` was converted, to Primitive(Unit)
C17_Witness ==
    /\ PathConverted
    /\ cin.value = PathOf("Unit")
    /\ cout.res = Ok(Primitive("Unit"))

\* the result of the first field of a struct that rua_parser does not convert
FirstFailedField(item) ==
    LET rs == [i \in 1..Len(item.fields) |-> RuaRsFieldTryFrom(item.fields[i])]
        i == CHOOSE k \in 1..Len(rs) :
                 ~IsOk(rs[k]) /\ \A j \in 1..(k - 1) : IsOk(rs[j])
    IN  rs[i]

\* C18: when the extraction of a struct fails because the conversion of a
\* field failed, the returned ConversionError has the field's error,
\* unmodified, as its cause, and its own destination and description set
C18_CauseChainPreserved ==
    ( /\ cout # None
      /\ cout.by = "rua"
      /\ cin.kind = "Struct"
      /\ \E i \in 1..Len(cin.value.fields) :
            ~IsOk(RuaRsFieldTryFrom(cin.value.fields[i])) )
    => /\ cout.res.tag = "Err"
       /\ cout.res.err.dst = Some("RsStruct")
       /\ cout.res.err.data.tag = "Some"
       /\ FirstFailedField(cin.value).tag = "Err"
       /\ cout.res.err.source = Some(FirstFailedField(cin.value).err)

\* a struct with fields, all of them positional and of type i32
IsTupleStruct(item) ==
    /\ Len(item.fields) >= 1
    /\ \A i \in 1..Len(item.fields) :
          item.fields[i].ident = None /\ item.fields[i].ty = I32

Decimal == <<"0", "1", "2", "3">>

TypesWithin(ty) ==
    CASE ty.k = "Struct" ->
            {ty.s.fields[i].ty : i \in 1..Len(ty.s.fields)}
      [] ty.k = "Enum" ->
            UNION {{ty.e.variants[v].fields[i].ty :
                       i \in 1..Len(ty.e.variants[v].fields)} :
                   v \in 1..Len(ty.e.variants)}
      [] ty.k = "Fn" -> {ty.f.args[i].ty : i \in 1..Len(ty.f.args)}
      [] OTHER -> {}

\* C20: the names of a struct, enum or function type one of whose field,
\* variant field or argument types has no names (a field of type u128) are
\* not computed: the computation fails
C20_TypeViewsRecursion ==
    ( /\ cout # None
      /\ cin.kind = "RsType"
      /\ cin.value.k \in {"Struct", "Enum", "Fn"}
      /\ \E m \in TypesWithin(cin.value) : TypeName(m).tag = "Err" )
    => cout.res.tag = "Err"

\* a stored name in PascalCase: letters only, the first of them uppercase
IsPascalCase(name) ==
    /\ name # <<>>
    /\ is_uppercase(name[1])
    /\ \A i \in 1..Len(name) :
          IsIn(UpperLetters, name[i]) \/ IsIn(LowerLetters, name[i])

Lowered(name) == [i \in 1..Len(name) |-> to_lowercase(name[i])[1]]
IsNotUnderscore(c) == c # "_"

\* C21: the snake-case name of an entity whose stored name is PascalCase has
\* every letter of the stored name, lowercased and in order, with nothing but
\* underscores between them; the stored name HelloWorld gives hello_world
C21_SnakeCaseDerivation ==
    ( /\ cout # None
      /\ cin.kind = "Named"
      /\ cin.value.named = "pascal"
      /\ cout.by = "snake"
      /\ IsPascalCase(cin.value.name) )
    => /\ SelectSeq(cout.res.val, IsNotUnderscore) = Lowered(cin.value.name)
       /\ cin.value.name = HelloWorld => cout.res.val = hello_world

\* C23: path/name.rs is tried first: when it can be read the result is that
\* of parsing it, whatever path/name.mod.rs is (with both valid, the File
\* is that of path/name.rs); path/name.mod.rs decides exactly when
\* path/name.rs cannot be read
C23_LookupOrder ==
    ( /\ cout # None
      /\ cin.kind = "Read"
      /\ cin.value.name.tag = "Some"
      /\ cin.value.path = Some(SrcDir) )
    => LET v == cin.value
           invalid == Err(InvalidModule(v.name.val, v.path.val))
       IN  /\ v.rs = "parsed" => cout.res = Ok("rs")
           /\ v.rs = "malformed" => cout.res = invalid
           /\ v.rs = "absent" =>
                 cout.res = IF v.mod_rs = "parsed" THEN Ok("mod_rs")
                            ELSE invalid

\* both files are valid and read_module returned the File of name.rs
C23_Witness ==
    /\ cout # None
    /\ cin.kind = "Read"
    /\ cin.value.path = Some(SrcDir)
    /\ cin.value.rs = "parsed"
    /\ cin.value.mod_rs = "parsed"
    /\ cout.res = Ok("rs")

\* C26: an attribute matches exactly when it is #[m] or #[m(...)], its path
\* being the one identifier m, and m is one of the markers; #[m = v] does
\* not match, nor does a path that contains a marker or is part of one
C26_AttributeMatching ==
    (cout # None /\ cin.kind = "Attr")
    => LET attr == cin.value.attr
           markers == {cin.value.annots[i] : i \in 1..Len(cin.value.annots)}
       IN  cout.res.val =
              ( /\ attr.meta \in {"Path", "List"}
                /\ Len(attr.path) = 1
                /\ attr.path[1] \in markers )

\* #[export = v] was tested against the marker export
C26_Witness ==
    /\ cout # None
    /\ cin.kind = "Attr"
    /\ cin.value.attr = MetaNameValue(<<"export">>)
    /\ cin.value.annots = <<"flusty", "export">>
    /\ cout.res = Ok(FALSE)

\* the functions of a list whose typedef is Ok
IsAdded(f) == IsOk(Typedef(f))

\* C30: add_fn of a function whose typedef fails returns the error and
\* leaves type_defs and fn_linkers as they were; add_fn of any other
\* function appends the ffi typedef and the dart typedef to type_defs and
\* the linker to fn_linkers; so type_defs is twice as long as fn_linkers,
\* and both are in the order of the calls
C30_AddFnAllOrNothing ==
    (cout # None /\ cin.kind = "Builder")
    => LET t == Typedef(cout.f)
           added == SelectSeq(cout.fns, IsAdded)
       IN  /\ IF IsOk(t)
              THEN /\ cout.res = Ok(<<>>)
                   /\ cout.builder.type_defs =
                         cout.before.type_defs
                             \o <<t.val.ffi_typedef, t.val.dart_typedef>>
                   /\ cout.builder.fn_linkers =
                         Append(cout.before.fn_linkers, t.val.fn_linker)
              ELSE /\ cout.res.tag = "Err"
                   /\ cout.builder = cout.before
           /\ Len(cout.builder.type_defs) = 2 * Len(cout.builder.fn_linkers)
           /\ Len(cout.builder.fn_linkers) = Len(added)
           /\ \A i \in 1..Len(added) :
                 cout.builder.fn_linkers[i] = Typedef(added[i]).val.fn_linker

====
